---- MODULE Spec2Model ----
(***************************************************************************)
(* Model of src/main.py: one process run of main(), i.e. the startup chain *)
(* initialize_rekognition -> setup_collection -> index_known_face and the  *)
(* webcam loop of run_face_recognition with its finally block.             *)
(*                                                                         *)
(* Similarities and thresholds are percentages in hundredths of a percent  *)
(* (85.0 is 8500, 84.99 is 8499), so that the comparison of line 119 is    *)
(* exact.                                                                  *)
(***************************************************************************)
EXTENDS Integers, Sequences, FiniteSets

VARIABLES
    pc,               \* position of the process in main()
    fatal,            \* which sys.exit(1) ended the process ("none" if none)
    calls,            \* remote calls issued so far on rek_client, in order
    collectionExists, \* remote state: the collection exists
    enrolled,         \* remote state: the collection holds the reference face
    indexOutcome,     \* how index_known_face ended
    threshold,        \* similarity_threshold handed to run_face_recognition
    cap,              \* cv2.VideoCapture handle: "unopened", "open", "released"
    releases,         \* number of cap.release() calls
    windowsDestroyed, \* number of cv2.destroyAllWindows() calls
    frameNo,          \* number of frames cap.read() has delivered
    frame,            \* the loop's current frame and the text drawn on it
    inputs,           \* per delivered frame: encode outcome and search response
    rendered,         \* frames handed to cv2.imshow, in order
    polls,            \* number of cv2.waitKey polls
    pending,          \* an exception is propagating out of the loop
    createOutcome,    \* how create_collection answered ("none" before the call)
    stopCause         \* why the loop was left ("none" while it has not been)

vars == <<pc, fatal, calls, collectionExists, enrolled, indexOutcome, threshold,
          cap, releases, windowsDestroyed, frameNo, frame, inputs, rendered,
          polls, pending, createOutcome, stopCause>>

-----------------------------------------------------------------------------
(* Bounds and configuration *)

\* Frames the camera delivers at most in one run.
MaxFrames == 3

\* SIMILARITY_THRESHOLD = 85.0
SIMILARITY_THRESHOLD == 8500

\* MaxFaces=1 of the search request
MaxFaces == 1

\* KNOWN_FACE_ID, the ExternalImageId the reference face is indexed under
KNOWN_FACE_ID == "S_Bussiso_Dube"

\* Thresholds run_face_recognition is called with.
Thresholds == {SIMILARITY_THRESHOLD, 9120}

\* Similarities the service reports.
Similarities == {6000, 8499, 8500, 9120}

-----------------------------------------------------------------------------
(* Search responses *)

\* One entry of resp['FaceMatches']; hasSim / hasId say whether the keys
\* 'Similarity' and 'Face'/'ExternalImageId' are present.
WellFormedCandidates ==
    {[hasSim |-> TRUE, Similarity |-> s, hasId |-> TRUE, ExternalImageId |-> KNOWN_FACE_ID] :
        s \in Similarities}

MalformedCandidates ==
    {[hasSim |-> FALSE, Similarity |-> 0, hasId |-> TRUE, ExternalImageId |-> KNOWN_FACE_ID],
     [hasSim |-> TRUE, Similarity |-> 9120, hasId |-> FALSE, ExternalImageId |-> ""]}

Candidates == WellFormedCandidates \cup MalformedCandidates

\* The search call raised.
SearchFailure == [ok |-> FALSE, FaceMatches |-> <<>>]

\* Outcomes of rek_client.search_faces_by_image: it raises, or returns a
\* response with at most MaxFaces matches.
Responses ==
    {SearchFailure, [ok |-> TRUE, FaceMatches |-> <<>>]}
        \cup {[ok |-> TRUE, FaceMatches |-> <<c>>] : c \in Candidates}

-----------------------------------------------------------------------------
(* Overlays: cv2.putText(frame, text, (10, y), ...) *)

\* Mutant of MatchText: the identity left out of the text.
MatchText_NoIdentity(face_id) == <<"Match">>

\* Line 120: f"Match: {face_id}"
MatchText(face_id) == <<"Match: ", face_id>>
LowMatchText == <<"Low Match">>
NoMatchText == <<"No Match">>
SearchErrorText == <<"Search Error">>

PutText(text, y) == [text |-> text, y |-> y]

NoFrame == [id |-> 0, overlays |-> <<>>]

-----------------------------------------------------------------------------
(* run_face_recognition, lines 104-132: the try block and its handler *)

\* Mutant of MeetsThreshold: the comparison written strict.
MeetsThreshold_Strict(sim, thr) == sim > thr

\* Line 119: sim >= similarity_threshold
MeetsThreshold(sim, thr) == sim >= thr

\* Lines 119-125: the overlay drawn for a candidate with both keys present.
CandidateOverlay(match, thr) ==
    IF MeetsThreshold(match.Similarity, thr)
    THEN PutText(MatchText(match.ExternalImageId), 30)
    ELSE PutText(LowMatchText, 30)

\* Mutant of HandleMatches: matches[0] taken without the emptiness test of
\* line 113, so that an empty list raises IndexError.
HandleMatches_NoEmptyCheck(matches, thr) ==
    IF matches = <<>> THEN [drawn |-> <<>>, raised |-> TRUE]
    ELSE LET match == matches[1] IN
         IF ~match.hasSim \/ ~match.hasId THEN [drawn |-> <<>>, raised |-> TRUE]
         ELSE [drawn |-> <<CandidateOverlay(match, thr)>>, raised |-> FALSE]

\* Mutant of HandleMatches: the identity looked up only after the overlay of
\* the threshold test has been drawn, so that a candidate without identity
\* raises with text already on the frame.
HandleMatches_LookupAfterDraw(matches, thr) ==
    IF matches # <<>>
    THEN LET match == matches[1] IN
         IF ~match.hasSim THEN [drawn |-> <<>>, raised |-> TRUE]
         ELSE IF ~match.hasId
              THEN [drawn |-> <<PutText(IF MeetsThreshold(match.Similarity, thr)
                                        THEN <<"Match: ">> ELSE LowMatchText, 30)>>,
                    raised |-> TRUE]
         ELSE [drawn |-> <<CandidateOverlay(match, thr)>>, raised |-> FALSE]
    ELSE [drawn |-> <<PutText(NoMatchText, 30)>>, raised |-> FALSE]

\* Lines 113-128: what the try block draws on the frame for the matches of a
\* returned response, and whether it raised (KeyError at line 115 or 116,
\* both before any putText of the block).
HandleMatches(matches, thr) ==
    IF matches # <<>>
    THEN LET match == matches[1] IN
         IF ~match.hasSim THEN [drawn |-> <<>>, raised |-> TRUE]
         ELSE IF ~match.hasId THEN [drawn |-> <<>>, raised |-> TRUE]
         ELSE [drawn |-> <<CandidateOverlay(match, thr)>>, raised |-> FALSE]
    ELSE [drawn |-> <<PutText(NoMatchText, 30)>>, raised |-> FALSE]

\* Lines 104-128: the try block; a raising search call draws nothing.
TryBody(resp, thr) ==
    IF ~resp.ok
    THEN [drawn |-> <<>>, raised |-> TRUE]
    ELSE HandleMatches(resp.FaceMatches, thr)

\* Lines 130-132: the handler adds "Search Error" at (10, 60) to whatever the
\* try block had drawn before it raised.
ExceptHandler(r) ==
    IF r.raised THEN Append(r.drawn, PutText(SearchErrorText, 60)) ELSE r.drawn

\* Lines 104-132 as a whole: the overlays one iteration draws on its frame.
SearchAndAnnotate(resp, thr) == ExceptHandler(TryBody(resp, thr))

\* Mutant of SearchCall: FaceMatchThreshold not passed on, so that the
\* service applies its own default of 80 percent.
SearchCall_ServiceDefault(thr) ==
    [op |-> "search_faces_by_image", FaceMatchThreshold |-> 8000,
     MaxFaces |-> MaxFaces]

\* The search request of lines 105-110.
SearchCall(thr) == [op |-> "search_faces_by_image", FaceMatchThreshold |-> thr,
                    MaxFaces |-> MaxFaces]

-----------------------------------------------------------------------------
(* Startup: main(), lines 148-153 *)

Init ==
    /\ pc = "initialize"
    /\ fatal = "none"
    /\ calls = <<>>
    /\ collectionExists \in BOOLEAN
    /\ enrolled \in {e \in BOOLEAN : e => collectionExists}
    /\ indexOutcome = "none"
    /\ threshold \in Thresholds
    /\ cap = "unopened"
    /\ releases = 0
    /\ windowsDestroyed = 0
    /\ frameNo = 0
    /\ frame = NoFrame
    /\ inputs = <<>>
    /\ rendered = <<>>
    /\ polls = 0
    /\ pending = FALSE
    /\ createOutcome = "none"
    /\ stopCause = "none"

\* Mutant of MainAfter: main enrolls the reference face before it sets the
\* collection up.
MainAfter_EnrollFirst(step) ==
    CASE step = "initialize" -> "index"
      [] step = "index" -> "setup"
      [] step = "setup" -> "open"

\* main, lines 150-153: the statement that follows each startup call once it
\* has returned.
MainAfter(step) ==
    CASE step = "initialize" -> "setup"
      [] step = "setup" -> "index"
      [] step = "index" -> "open"

\* sys.exit(1): the process ends; SystemExit is no Exception, so no handler
\* of this program catches it.
Exit(cause) ==
    /\ pc' = "exited"
    /\ fatal' = cause

\* initialize_rekognition, lines 29-48.
InitializeRekognition ==
    /\ pc = "initialize"
    /\ \E hasKeyId \in BOOLEAN, hasSecret \in BOOLEAN, clientOk \in BOOLEAN :
          IF ~hasKeyId \/ ~hasSecret THEN Exit("credentials")
          ELSE IF ~clientOk THEN Exit("client")
          ELSE pc' = MainAfter("initialize") /\ fatal' = fatal
    /\ UNCHANGED <<calls, collectionExists, enrolled, indexOutcome, threshold, cap,
                   releases, windowsDestroyed, frameNo, frame, inputs, rendered,
                   polls, pending, createOutcome, stopCause>>

\* What create_collection can answer in a given remote state.
CreateOutcomes(exists) ==
    IF exists THEN {"already_exists", "error"} ELSE {"created", "error"}

\* Mutant of CollectionUsable: no handler for ResourceAlreadyExistsException.
CollectionUsable_CreatedOnly(outcome) == outcome = "created"

\* Lines 52-59: which outcomes of create_collection let startup proceed.
CollectionUsable(outcome) == outcome \in {"created", "already_exists"}

\* setup_collection, lines 50-59.
SetupCollection ==
    /\ pc = "setup"
    /\ calls' = Append(calls, [op |-> "create_collection"])
    /\ \E outcome \in CreateOutcomes(collectionExists) :
          /\ createOutcome' = outcome
          /\ collectionExists' = (collectionExists \/ outcome = "created")
          /\ IF CollectionUsable(outcome)
             THEN pc' = MainAfter("setup") /\ fatal' = fatal
             ELSE Exit("collection")
    /\ UNCHANGED <<enrolled, indexOutcome, threshold, cap, releases,
                   windowsDestroyed, frameNo, frame, inputs, rendered, polls,
                   pending, stopCause>>

\* Lines 76-81: which failures of index_known_face end the process. Only
\* FileNotFoundError calls sys.exit(1); any other Exception is logged.
IndexFailureIsFatal(outcome) == outcome = "not_found"

\* index_known_face, lines 61-81. The file is opened and read first
\* ("not_found": FileNotFoundError, "unreadable": any other error of
\* open/read); only then is index_faces called.
IndexKnownFace ==
    /\ pc = "index"
    /\ \E outcome \in {"indexed", "not_found", "unreadable", "index_failed"} :
          /\ indexOutcome' = outcome
          /\ calls' = IF outcome \in {"indexed", "index_failed"}
                      THEN Append(calls, [op |-> "index_faces",
                                          ExternalImageId |-> KNOWN_FACE_ID])
                      ELSE calls
          /\ enrolled' = (enrolled \/ outcome = "indexed")
          /\ IF outcome = "indexed" \/ ~IndexFailureIsFatal(outcome)
             THEN pc' = MainAfter("index") /\ fatal' = fatal
             ELSE Exit("reference")
    /\ UNCHANGED <<collectionExists, threshold, cap, releases, windowsDestroyed,
                   frameNo, frame, inputs, rendered, polls, pending,
                   createOutcome, stopCause>>

-----------------------------------------------------------------------------
(* run_face_recognition, lines 83-145 *)

\* Mutant of OpenCamera: the failure to open is logged and the function goes
\* on into the loop.
OpenCamera_LogOnly ==
    /\ pc = "open"
    /\ \E opened \in BOOLEAN :
          IF opened
          THEN cap' = "open" /\ pc' = "read" /\ fatal' = fatal
          ELSE cap' = cap /\ pc' = "read" /\ fatal' = "camera"
    /\ UNCHANGED <<calls, collectionExists, enrolled, indexOutcome, threshold,
                   releases, windowsDestroyed, frameNo, frame, inputs, rendered,
                   polls, pending, createOutcome, stopCause>>

\* Lines 86-89: cv2.VideoCapture(0) and the isOpened check.
OpenCamera ==
    /\ pc = "open"
    /\ \E opened \in BOOLEAN :
          IF opened
          THEN cap' = "open" /\ pc' = "read" /\ fatal' = fatal
          ELSE cap' = cap /\ Exit("camera")
    /\ UNCHANGED <<calls, collectionExists, enrolled, indexOutcome, threshold,
                   releases, windowsDestroyed, frameNo, frame, inputs, rendered,
                   polls, pending, createOutcome, stopCause>>

\* An exception that no handler inside the loop catches: control goes to the
\* finally block with the exception pending.
Raise ==
    /\ pc' = "finally"
    /\ pending' = TRUE
    /\ stopCause' = "exception"

\* break: control goes to the finally block.
Break(cause) ==
    /\ pc' = "finally"
    /\ pending' = pending
    /\ stopCause' = cause

\* The loop goes on: control moves to the given statement of the loop.
Goto(label) ==
    /\ pc' = label
    /\ pending' = pending
    /\ stopCause' = stopCause

\* Mutant of ReadFrame: a failed grab raises instead of breaking.
ReadFrame_FatalEndOfStream ==
    /\ pc = "read"
    /\ \/ /\ frameNo < MaxFrames
          /\ frameNo' = frameNo + 1
          /\ frame' = [id |-> frameNo + 1, overlays |-> <<>>]
          /\ Goto("encode")
       \/ /\ pc' = "finally"
          /\ pending' = TRUE
          /\ stopCause' = "end_of_stream"
          /\ UNCHANGED <<frameNo, frame>>
       \/ Raise /\ UNCHANGED <<frameNo, frame>>
    /\ UNCHANGED <<fatal, calls, collectionExists, enrolled, indexOutcome,
                   threshold, cap, releases, windowsDestroyed, inputs, rendered,
                   polls, createOutcome>>

\* Lines 93-96: cap.read() delivers a frame, reports failure (ret False), or
\* raises.
ReadFrame ==
    /\ pc = "read"
    /\ \/ /\ frameNo < MaxFrames
          /\ frameNo' = frameNo + 1
          /\ frame' = [id |-> frameNo + 1, overlays |-> <<>>]
          /\ Goto("encode")
       \/ Break("end_of_stream") /\ UNCHANGED <<frameNo, frame>>
       \/ Raise /\ UNCHANGED <<frameNo, frame>>
    /\ UNCHANGED <<fatal, calls, collectionExists, enrolled, indexOutcome,
                   threshold, cap, releases, windowsDestroyed, inputs, rendered,
                   polls, createOutcome>>

\* Mutant of AfterEncodeFailure: the failed encoding is ignored and the
\* iteration goes on to the search call.
AfterEncodeFailure_ToSearch == "search"

\* Mutant of AfterEncodeFailure: no continue, control falls through to the
\* display call.
AfterEncodeFailure_FallThrough == "show"

\* Lines 99-101: where control goes when imencode reports failure (continue).
AfterEncodeFailure == "read"

\* Mutant of EncodeFrame: a failed encoding draws an indicator on the frame
\* and goes on to the display call.
EncodeFrame_DrawsIndicator ==
    /\ pc = "encode"
    /\ \E ret \in BOOLEAN :
          IF ret
          THEN Goto("search") /\ inputs' = inputs /\ frame' = frame
          ELSE /\ Goto("show")
               /\ inputs' = Append(inputs, [encoded |-> FALSE, resp |-> SearchFailure])
               /\ frame' = [frame EXCEPT
                               !.overlays = Append(@, PutText(<<"Encode Error">>, 60))]
    /\ UNCHANGED <<fatal, calls, collectionExists, enrolled, indexOutcome,
                   threshold, cap, releases, windowsDestroyed, frameNo,
                   rendered, polls, createOutcome>>

\* Lines 98-102: cv2.imencode on the current frame.
EncodeFrame ==
    /\ pc = "encode"
    /\ \E ret \in BOOLEAN :
          IF ret
          THEN Goto("search") /\ inputs' = inputs
          ELSE /\ Goto(AfterEncodeFailure)
               /\ inputs' = Append(inputs, [encoded |-> FALSE, resp |-> SearchFailure])
    /\ UNCHANGED <<fatal, calls, collectionExists, enrolled, indexOutcome,
                   threshold, cap, releases, windowsDestroyed, frameNo, frame,
                   rendered, polls, createOutcome>>

\* Mutant of SearchFaces: a raising search call is repeated once for the same
\* frame before its outcome is taken.
SearchFaces_RetryOnce ==
    /\ pc = "search"
    /\ \E resp \in Responses :
          /\ calls' = IF resp.ok
                      THEN Append(calls, SearchCall(threshold))
                      ELSE calls \o <<SearchCall(threshold), SearchCall(threshold)>>
          /\ frame' = [frame EXCEPT !.overlays = @ \o SearchAndAnnotate(resp, threshold)]
          /\ inputs' = Append(inputs, [encoded |-> TRUE, resp |-> resp])
    /\ Goto("show")
    /\ UNCHANGED <<fatal, collectionExists, enrolled, indexOutcome, threshold, cap,
                   releases, windowsDestroyed, frameNo, rendered, polls,
                   createOutcome>>

\* Mutant of SearchFaces: the handler catches the errors of the service call
\* only, so that a KeyError of lines 115-116 leaves the loop.
SearchFaces_CatchesServiceErrorsOnly ==
    /\ pc = "search"
    /\ calls' = Append(calls, SearchCall(threshold))
    /\ \E resp \in Responses :
          /\ inputs' = Append(inputs, [encoded |-> TRUE, resp |-> resp])
          /\ IF resp.ok /\ TryBody(resp, threshold).raised
             THEN Raise /\ frame' = frame
             ELSE /\ Goto("show")
                  /\ frame' = [frame EXCEPT
                                  !.overlays = @ \o SearchAndAnnotate(resp, threshold)]
    /\ UNCHANGED <<fatal, collectionExists, enrolled, indexOutcome, threshold, cap,
                   releases, windowsDestroyed, frameNo, rendered, polls,
                   createOutcome>>

\* Mutant of SearchFaces: no handler around the search call, so that a
\* raising call leaves the loop.
SearchFaces_Uncaught ==
    /\ pc = "search"
    /\ calls' = Append(calls, SearchCall(threshold))
    /\ \E resp \in Responses :
          /\ inputs' = Append(inputs, [encoded |-> TRUE, resp |-> resp])
          /\ IF TryBody(resp, threshold).raised
             THEN Raise /\ frame' = frame
             ELSE /\ Goto("show")
                  /\ frame' = [frame EXCEPT
                                  !.overlays = @ \o TryBody(resp, threshold).drawn]
    /\ UNCHANGED <<fatal, collectionExists, enrolled, indexOutcome, threshold, cap,
                   releases, windowsDestroyed, frameNo, rendered, polls,
                   createOutcome>>

\* Lines 104-132: the search call and the annotation of the frame.
SearchFaces ==
    /\ pc = "search"
    /\ calls' = Append(calls, SearchCall(threshold))
    /\ \E resp \in Responses :
          /\ frame' = [frame EXCEPT !.overlays = @ \o SearchAndAnnotate(resp, threshold)]
          /\ inputs' = Append(inputs, [encoded |-> TRUE, resp |-> resp])
    /\ Goto("show")
    /\ UNCHANGED <<fatal, collectionExists, enrolled, indexOutcome, threshold, cap,
                   releases, windowsDestroyed, frameNo, rendered, polls,
                   createOutcome>>

\* Line 134: cv2.imshow hands the frame to the display, or raises.
ShowFrame ==
    /\ pc = "show"
    /\ \/ /\ rendered' = Append(rendered, frame)
          /\ Goto("poll")
       \/ Raise /\ rendered' = rendered
    /\ UNCHANGED <<fatal, calls, collectionExists, enrolled, indexOutcome,
                   threshold, cap, releases, windowsDestroyed, frameNo, frame,
                   inputs, polls, createOutcome>>

\* Mutant of PollKey: 'q' is noticed and logged but the break is missing.
PollKey_NoBreak ==
    /\ pc = "poll"
    /\ polls' = polls + 1
    /\ \/ \E key \in {"q", "other", "none"} :
             IF key = "q"
             THEN pc' = "read" /\ pending' = pending /\ stopCause' = "quit"
             ELSE Goto("read")
       \/ Raise
    /\ UNCHANGED <<fatal, calls, collectionExists, enrolled, indexOutcome,
                   threshold, cap, releases, windowsDestroyed, frameNo, frame,
                   inputs, rendered, createOutcome>>

\* Lines 136-138: cv2.waitKey(1) polls the keyboard; 'q' breaks.
PollKey ==
    /\ pc = "poll"
    /\ polls' = polls + 1
    /\ \/ \E key \in {"q", "other", "none"} :
             IF key = "q" THEN Break("quit") ELSE Goto("read")
       \/ Raise
    /\ UNCHANGED <<fatal, calls, collectionExists, enrolled, indexOutcome,
                   threshold, cap, releases, windowsDestroyed, frameNo, frame,
                   inputs, rendered, createOutcome>>

\* Lines 142-143: release the handle if it is open.
ReleaseIfOpened(c) == IF c = "open" THEN "released" ELSE c

\* Mutant of Cleanup: the release sequence placed after the loop instead of
\* in a finally block, so that a propagating exception skips it.
Cleanup_OnlyOnReturn ==
    /\ pc = "finally"
    /\ cap' = IF pending THEN cap ELSE ReleaseIfOpened(cap)
    /\ releases' = IF cap' # cap THEN releases + 1 ELSE releases
    /\ windowsDestroyed' = IF pending THEN windowsDestroyed ELSE windowsDestroyed + 1
    /\ pc' = IF pending THEN "crashed" ELSE "finished"
    /\ UNCHANGED <<fatal, calls, collectionExists, enrolled, indexOutcome,
                   threshold, frameNo, frame, inputs, rendered, polls, pending,
                   createOutcome, stopCause>>

\* Lines 139-145 and the return to main (line 154): the finally block; a
\* pending exception then propagates and ends the process with a traceback.
Cleanup ==
    /\ pc = "finally"
    /\ cap' = ReleaseIfOpened(cap)
    /\ releases' = IF cap' # cap THEN releases + 1 ELSE releases
    /\ windowsDestroyed' = windowsDestroyed + 1
    /\ pc' = IF pending THEN "crashed" ELSE "finished"
    /\ UNCHANGED <<fatal, calls, collectionExists, enrolled, indexOutcome,
                   threshold, frameNo, frame, inputs, rendered, polls, pending,
                   createOutcome, stopCause>>

Next ==
    \/ InitializeRekognition
    \/ SetupCollection
    \/ IndexKnownFace
    \/ OpenCamera
    \/ ReadFrame
    \/ EncodeFrame
    \/ SearchFaces
    \/ ShowFrame
    \/ PollKey
    \/ Cleanup

Spec == Init /\ [][Next]_vars

-----------------------------------------------------------------------------
(* The loop under a standing quit request *)

\* Lines 93-96 when cap.read() returns: a frame or ret False. The camera may
\* go on delivering frames for ever; once MaxFrames frames are on record the
\* record of the earlier iterations is dropped and the count starts again.
ReadFrameReturns ==
    /\ pc = "read"
    /\ \/ /\ frameNo < MaxFrames
          /\ frameNo' = frameNo + 1
          /\ frame' = [id |-> frameNo + 1, overlays |-> <<>>]
          /\ Goto("encode")
          /\ UNCHANGED <<inputs, rendered, polls>>
       \/ /\ frameNo = MaxFrames
          /\ frameNo' = 1
          /\ frame' = [id |-> 1, overlays |-> <<>>]
          /\ inputs' = <<>>
          /\ rendered' = <<>>
          /\ polls' = 0
          /\ Goto("encode")
       \/ Break("end_of_stream") /\ UNCHANGED <<frameNo, frame, inputs, rendered, polls>>
    /\ UNCHANGED <<fatal, calls, collectionExists, enrolled, indexOutcome,
                   threshold, cap, releases, windowsDestroyed, createOutcome>>

\* Line 134 when cv2.imshow returns.
ShowFrameReturns ==
    /\ pc = "show"
    /\ rendered' = Append(rendered, frame)
    /\ Goto("poll")
    /\ UNCHANGED <<fatal, calls, collectionExists, enrolled, indexOutcome,
                   threshold, cap, releases, windowsDestroyed, frameNo, frame,
                   inputs, polls, createOutcome>>

\* Lines 136-138 when 'q' is held down: every poll sees it and breaks.
PollKeyAsserted ==
    /\ pc = "poll"
    /\ polls' = polls + 1
    /\ Break("quit")
    /\ UNCHANGED <<fatal, calls, collectionExists, enrolled, indexOutcome,
                   threshold, cap, releases, windowsDestroyed, frameNo, frame,
                   inputs, rendered, createOutcome>>

\* One run in which the quit key is held down from the start and every
\* capture, search and render call returns.
LiveNext ==
    \/ InitializeRekognition
    \/ SetupCollection
    \/ IndexKnownFace
    \/ OpenCamera
    \/ ReadFrameReturns
    \/ EncodeFrame
    \/ SearchFaces
    \/ ShowFrameReturns
    \/ PollKeyAsserted
    \/ Cleanup

\* The process is a single thread that always takes its next step.
LiveSpec == Init /\ [][LiveNext]_vars /\ WF_vars(LiveNext)

\* The loop states of the recognition loop.
Running == pc \in {"read", "encode", "search", "show", "poll"}
Stopping == pc = "finally"
Stopped == pc = "finished"

TypeOK ==
    /\ pc \in {"initialize", "setup", "index", "open", "read", "encode", "search",
               "show", "poll", "finally", "finished", "crashed", "exited"}
    /\ cap \in {"unopened", "open", "released"}
    /\ frameNo \in 0..MaxFrames
    /\ Len(inputs) \in 0..MaxFrames

-----------------------------------------------------------------------------
(* Vocabulary of the properties *)

\* The decision an overlay stands for, read off its text.
OverlayKind(o) ==
    CASE o.text[1] = "Match: " -> "Match"
      [] o.text[1] = "Low Match" -> "LowMatch"
      [] o.text[1] = "No Match" -> "NoMatch"
      [] o.text[1] = "Search Error" -> "SearchError"
      [] OTHER -> "unknown"

Decisions == {"Match", "LowMatch", "NoMatch", "SearchError"}

\* The decisions drawn on a frame.
KindsOn(f) == {OverlayKind(f.overlays[i]) : i \in DOMAIN f.overlays}

\* The frames that carry the result of their iteration: those handed to the
\* display, and the one annotated and about to be.
AnnotatedFrames ==
    {rendered[i] : i \in DOMAIN rendered} \cup (IF pc = "show" THEN {frame} ELSE {})

\* The search response of the iteration that produced frame f.
ResponseOf(f) == inputs[f.id].resp

HasCandidate(resp) == resp.ok /\ resp.FaceMatches # <<>>

\* A candidate that carries both its similarity and its external identity.
HasWellFormedCandidate(resp) ==
    /\ HasCandidate(resp)
    /\ resp.FaceMatches[1].hasSim
    /\ resp.FaceMatches[1].hasId

SearchCalls == {i \in DOMAIN calls : calls[i].op = "search_faces_by_image"}

EncodedFrames == {k \in DOMAIN inputs : inputs[k].encoded}

-----------------------------------------------------------------------------
(* C1 *)

\* C1: for every search response with a candidate (carrying similarity and
\* identity) and every threshold, the frame's decision is Match exactly when
\* similarity >= threshold and LowMatch exactly when similarity < threshold;
\* similarity equal to the threshold is a Match.
C1_ThresholdIsClosedLowerBound ==
    \A f \in AnnotatedFrames :
        HasWellFormedCandidate(ResponseOf(f)) =>
            LET sim == ResponseOf(f).FaceMatches[1].Similarity IN
            /\ ("Match" \in KindsOn(f)) <=> (sim >= threshold)
            /\ ("LowMatch" \in KindsOn(f)) <=> (sim < threshold)
            /\ KindsOn(f) \subseteq {"Match", "LowMatch"}

\* Threshold 85.00: one frame at similarity 85.00 rendered as Match and one at
\* 84.99 rendered as LowMatch.
C1_Witness ==
    /\ threshold = SIMILARITY_THRESHOLD
    /\ \E i, j \in DOMAIN rendered :
          /\ HasWellFormedCandidate(ResponseOf(rendered[i]))
          /\ ResponseOf(rendered[i]).FaceMatches[1].Similarity = 8500
          /\ KindsOn(rendered[i]) = {"Match"}
          /\ HasWellFormedCandidate(ResponseOf(rendered[j]))
          /\ ResponseOf(rendered[j]).FaceMatches[1].Similarity = 8499
          /\ KindsOn(rendered[j]) = {"LowMatch"}

-----------------------------------------------------------------------------
(* C2 *)

EnrollmentFailed == indexOutcome \in {"not_found", "unreadable", "index_failed"}

\* C2: if enrollment of the reference identity fails for any cause, the
\* process aborts before the loop starts (camera never opened, no search
\* issued); whenever the loop is Running the collection exists and holds the
\* reference identity.
C2_EnrollmentFailureIsFatal ==
    /\ EnrollmentFailed => (cap = "unopened" /\ SearchCalls = {})
    /\ Running => (collectionExists /\ enrolled)

-----------------------------------------------------------------------------
(* C3 *)

ProcessEnded == pc \in {"finished", "crashed", "exited"}

\* C3: on every exit path of the loop after the camera was opened (quit,
\* EndOfStream, uncaught error) the handle is released exactly once and is not
\* open when the process ends; on the open-failure path the handle is never
\* open and never released.
C3_CameraReleasedExactlyOnce ==
    /\ releases <= 1
    /\ (stopCause # "none" /\ ProcessEnded) => (releases = 1 /\ cap = "released")
    /\ ProcessEnded => cap # "open"
    /\ fatal = "camera" => (cap = "unopened" /\ releases = 0)

\* An uncaught error in the loop ended the process and the handle was released.
C3_Witness ==
    /\ pc = "crashed"
    /\ stopCause = "exception"
    /\ frameNo > 0
    /\ releases = 1
    /\ cap = "released"

-----------------------------------------------------------------------------
(* C4 *)

\* C4: a failing search call yields SearchError for its own iteration only:
\* the step of the failing search leaves the loop Running with the frame about
\* to be rendered, the frame carries SearchError, and every frame's decision
\* depends on its own search response alone, whatever failed before it.
C4_SearchFailureIsolated ==
    /\ [](\A f \in AnnotatedFrames :
            ~ResponseOf(f).ok => KindsOn(f) = {"SearchError"})
    /\ [](\A f, g \in AnnotatedFrames :
            ResponseOf(f) = ResponseOf(g) => f.overlays = g.overlays)
    /\ [][pc = "search" =>
            /\ pc' = "show"
            /\ ~pending'
            /\ stopCause' = "none"
            /\ cap' = "open"
            /\ frame'.id = frame.id]_vars

\* Two consecutive failed searches, both rendered as SearchError, followed by
\* an iteration whose own response decides Match.
C4_Witness ==
    /\ Len(rendered) = 3
    /\ ~ResponseOf(rendered[1]).ok
    /\ ~ResponseOf(rendered[2]).ok
    /\ KindsOn(rendered[1]) = {"SearchError"}
    /\ KindsOn(rendered[2]) = {"SearchError"}
    /\ HasWellFormedCandidate(ResponseOf(rendered[3]))
    /\ KindsOn(rendered[3]) = {"Match"}

-----------------------------------------------------------------------------
(* C5 *)

\* C5: a search response with an empty candidate set yields NoMatch, for
\* every threshold.
C5_EmptyResultIsNoMatch ==
    \A f \in AnnotatedFrames :
        (ResponseOf(f).ok /\ ResponseOf(f).FaceMatches = <<>>) =>
            KindsOn(f) = {"NoMatch"}

\* An empty result rendered as NoMatch under a threshold other than the
\* default.
C5_Witness ==
    /\ threshold # SIMILARITY_THRESHOLD
    /\ \E i \in DOMAIN rendered :
          /\ ResponseOf(rendered[i]).ok
          /\ ResponseOf(rendered[i]).FaceMatches = <<>>
          /\ KindsOn(rendered[i]) = {"NoMatch"}

-----------------------------------------------------------------------------
(* C6 *)

\* C6: every frame handed to the display carries exactly one overlay, and it
\* is one of Match, LowMatch, NoMatch, SearchError.
C6_ExactlyOneOverlay ==
    \A i \in DOMAIN rendered :
        /\ Len(rendered[i].overlays) = 1
        /\ OverlayKind(rendered[i].overlays[1]) \in Decisions

\* A frame whose response held a candidate without identity was displayed.
C6_Witness ==
    \E i \in DOMAIN rendered :
        /\ HasCandidate(ResponseOf(rendered[i]))
        /\ ~ResponseOf(rendered[i]).FaceMatches[1].hasId
        /\ Len(rendered[i].overlays) = 1

-----------------------------------------------------------------------------
(* C7 *)

\* Frames whose iteration has passed the display call.
PastDisplay ==
    {k \in EncodedFrames : k < frameNo \/ pc = "poll" \/ stopCause = "quit"}

\* C7: the rendered decisions are the decisions of the frames in input
\* order, with exactly the frames that failed to encode omitted: rendered
\* frames are in strictly increasing frame order (no reordering, no
\* duplicate), each carries the decision of its own response, none is a frame
\* that failed to encode, and no encoded frame whose iteration passed the
\* display call is missing.
C7_RenderedInFrameOrder ==
    /\ \A i, j \in DOMAIN rendered : i < j => rendered[i].id < rendered[j].id
    /\ \A i \in DOMAIN rendered :
          /\ rendered[i].id \in EncodedFrames
          /\ rendered[i].overlays =
                SearchAndAnnotate(inputs[rendered[i].id].resp, threshold)
    /\ \A k \in PastDisplay : \E i \in DOMAIN rendered : rendered[i].id = k

\* Three frames of which the second failed to encode: the first and the third
\* are rendered, in that order.
C7_Witness ==
    /\ Len(inputs) = 3
    /\ inputs[1].encoded /\ ~inputs[2].encoded /\ inputs[3].encoded
    /\ Len(rendered) = 2
    /\ rendered[1].id = 1
    /\ rendered[2].id = 3
    /\ KindsOn(rendered[1]) # KindsOn(rendered[2])

-----------------------------------------------------------------------------
(* C8 *)

NoIterationRan ==
    /\ frameNo = 0
    /\ inputs = <<>>
    /\ SearchCalls = {}
    /\ rendered = <<>>
    /\ polls = 0

\* C8: missing credentials, a collection-creation failure other than
\* already-exists, and the camera failing to open each abort the process with
\* no loop iteration (no frame read, no search, nothing rendered); after
\* missing credentials no remote call at all is made.
C8_FatalStartupAborts ==
    /\ fatal \in {"credentials", "collection", "camera"} =>
          (pc = "exited" /\ NoIterationRan)
    /\ createOutcome = "error" => fatal = "collection"
    /\ fatal = "credentials" => calls = <<>>

\* The camera failed to open after setup and enrollment had made their calls.
C8_Witness ==
    /\ fatal = "camera"
    /\ pc = "exited"
    /\ Len(calls) = 2

-----------------------------------------------------------------------------
(* C9 *)

\* C9: when the collection already exists, create_collection's answer is
\* treated like a successful creation: the process does not abort on it, the
\* collection still exists, and startup proceeds to enrollment.
C9_AlreadyExistsIsSuccess ==
    createOutcome \in {"created", "already_exists"} =>
        /\ collectionExists
        /\ fatal # "collection"
        /\ pc = "index" \/ indexOutcome # "none"

\* A run that found the collection in place and went on to enroll.
C9_Witness ==
    /\ createOutcome = "already_exists"
    /\ indexOutcome = "indexed"
    /\ pc = "open"

-----------------------------------------------------------------------------
(* C10 *)

\* C10: EndOfStream ends the loop gracefully: the iteration that met it
\* issues no search and renders nothing, the release sequence runs, and the
\* process function returns normally (Stopped) instead of aborting.
C10_EndOfStreamIsGraceful ==
    /\ [](stopCause = "end_of_stream" =>
            /\ pc \in {"finally", "finished"}
            /\ ~pending
            /\ fatal = "none"
            /\ Len(inputs) = frameNo
            /\ Cardinality(SearchCalls) = Cardinality(EncodedFrames)
            /\ Len(rendered) = Cardinality(EncodedFrames)
            /\ pc = "finished" =>
                  (cap = "released" /\ releases = 1 /\ windowsDestroyed = 1))
    /\ [][(pc = "read" /\ stopCause' = "end_of_stream") =>
            (pc' = "finally" /\ UNCHANGED <<calls, rendered, inputs, frame>>)]_vars
    /\ [][(pc = "finally" /\ stopCause = "end_of_stream") => pc' = "finished"]_vars

\* The stream ended after a frame had been rendered, and the process function
\* returned with the camera released.
C10_Witness ==
    /\ stopCause = "end_of_stream"
    /\ pc = "finished"
    /\ Len(rendered) > 0
    /\ cap = "released"


-----------------------------------------------------------------------------
(* C11 *)

\* Frames whose encoding failed.
UnencodedFrames == {k \in DOMAIN inputs : ~inputs[k].encoded}

\* C11 as stated: an encode failure is surfaced as an on-screen indicator for
\* its frame, as a search-call failure is.
C11_EncodeFailureSurfaced ==
    \A k \in UnencodedFrames :
        \E i \in DOMAIN rendered :
            rendered[i].id = k /\ rendered[i].overlays # <<>>

\* C11 as amended: an encode failure is not surfaced on screen, its frame is
\* never handed to the display; a search-call failure is surfaced, as the
\* Search Error overlay; the loop continues after an encode failure.
C11_EncodeFailureNotSurfaced ==
    /\ [](\A k \in UnencodedFrames : \A i \in DOMAIN rendered : rendered[i].id # k)
    /\ [](\A i \in DOMAIN rendered :
            ~ResponseOf(rendered[i]).ok =>
                PutText(SearchErrorText, 60) \in
                    {rendered[i].overlays[n] : n \in DOMAIN rendered[i].overlays})
    /\ [][(pc = "encode" /\ Len(inputs') > Len(inputs)) =>
            (pc' = "read" /\ stopCause' = "none" /\ rendered' = rendered)]_vars

\* The first frame failed to encode and left nothing on screen; the second
\* met a failing search and was displayed with Search Error.
C11_Witness ==
    /\ Len(inputs) >= 2
    /\ ~inputs[1].encoded
    /\ inputs[2].encoded /\ ~inputs[2].resp.ok
    /\ Len(rendered) = 1
    /\ rendered[1].id = 2
    /\ KindsOn(rendered[1]) = {"SearchError"}


-----------------------------------------------------------------------------
(* C12 *)

\* The response that holds the enrolled identity at the given similarity.
ResponseWith(sim) ==
    [ok |-> TRUE,
     FaceMatches |-> <<[hasSim |-> TRUE, Similarity |-> sim,
                        hasId |-> TRUE, ExternalImageId |-> KNOWN_FACE_ID]>>]

\* Rendered frames i, i+1, i+2 are three consecutive frames whose responses
\* are (identity, 91.2), (identity, 60.0) and an empty result, under
\* threshold 85.0.
EndToEndScenarioAt(i) ==
    /\ threshold = SIMILARITY_THRESHOLD
    /\ i + 2 \in DOMAIN rendered
    /\ rendered[i + 1].id = rendered[i].id + 1
    /\ rendered[i + 2].id = rendered[i].id + 2
    /\ ResponseOf(rendered[i]) = ResponseWith(9120)
    /\ ResponseOf(rendered[i + 1]) = ResponseWith(6000)
    /\ ResponseOf(rendered[i + 2]) = [ok |-> TRUE, FaceMatches |-> <<>>]

\* C12 as stated: the three frames are rendered in order with a Match overlay
\* showing the identity and its similarity ("Match: <id> (91.2%)"), then
\* LowMatch, then NoMatch.
C12_MatchOverlayShowsSimilarity ==
    \A i \in DOMAIN rendered :
        EndToEndScenarioAt(i) =>
            /\ rendered[i].overlays =
                  <<PutText(<<"Match: ", KNOWN_FACE_ID, " (", 9120, "%)">>, 30)>>
            /\ KindsOn(rendered[i + 1]) = {"LowMatch"}
            /\ KindsOn(rendered[i + 2]) = {"NoMatch"}

\* C12 as amended: the Match overlay shows the identity alone
\* ("Match: <id>"), followed by "Low Match" and "No Match", in that order.
C12_MatchOverlayShowsIdentityOnly ==
    \A i \in DOMAIN rendered :
        EndToEndScenarioAt(i) =>
            /\ rendered[i].overlays = <<PutText(<<"Match: ", KNOWN_FACE_ID>>, 30)>>
            /\ rendered[i + 1].overlays = <<PutText(<<"Low Match">>, 30)>>
            /\ rendered[i + 2].overlays = <<PutText(<<"No Match">>, 30)>>

\* The three frames of the scenario have been displayed.
C12_Witness ==
    /\ EndToEndScenarioAt(1)
    /\ Len(rendered) = 3
    /\ KindsOn(rendered[1]) = {"Match"}


-----------------------------------------------------------------------------
(* C13 *)

\* C13: every iteration that acquired a frame polls the cancellation signal
\* exactly once before the next frame is acquired, also when its encoding
\* failed: whenever the loop is about to acquire a frame, each frame acquired
\* so far has had its poll.
C13_PollOncePerIteration ==
    /\ polls <= frameNo
    /\ pc = "read" => polls = frameNo


-----------------------------------------------------------------------------
(* C14 *)

\* The step in which imencode reports failure for the current frame.
EncodeFails == pc = "encode" /\ Len(inputs') > Len(inputs)

\* C14: when encoding of a frame fails, that iteration performs no search
\* call, draws no annotation and renders nothing, the loop remains Running,
\* and the next iteration acquires a fresh frame.
C14_EncodeFailureSkipsIteration ==
    /\ [][EncodeFails =>
            /\ calls' = calls
            /\ frame' = frame
            /\ frame.overlays = <<>>
            /\ rendered' = rendered
            /\ pc' = "read"
            /\ stopCause' = "none"
            /\ ~pending'
            /\ cap' = "open"]_vars
    /\ [][(pc = "read" /\ pc' = "encode") =>
            /\ frame'.id = frame.id + 1
            /\ frame'.overlays = <<>>]_vars
    /\ [](\A k \in UnencodedFrames :
            /\ k <= frameNo
            /\ \A f \in AnnotatedFrames : f.id # k)

\* The first frame failed to encode: nothing was searched or rendered and the
\* loop has acquired the second frame.
C14_Witness ==
    /\ Len(inputs) = 1
    /\ ~inputs[1].encoded
    /\ pc = "encode"
    /\ frame = [id |-> 2, overlays |-> <<>>]
    /\ SearchCalls = {}
    /\ rendered = <<>>


-----------------------------------------------------------------------------
(* C15 *)

CreateCalls == {i \in DOMAIN calls : calls[i].op = "create_collection"}
IndexCalls == {i \in DOMAIN calls : calls[i].op = "index_faces"}

\* setup_collection and index_known_face have both returned.
StartupCompleted ==
    /\ createOutcome \in {"created", "already_exists"}
    /\ indexOutcome \in {"indexed", "unreadable", "index_failed"}

\* C15: setup_collection and then index_known_face are each invoked exactly
\* once per run, both complete before the camera is opened and before the
\* first search, and neither is invoked again once the loop is Running.
C15_StartupRunsOnceBeforeLoop ==
    /\ []((cap # "unopened" \/ SearchCalls # {} \/ Running \/ pc = "open") =>
            /\ StartupCompleted
            /\ Cardinality(CreateCalls) = 1
            /\ Cardinality(IndexCalls) <= 1
            /\ indexOutcome \in {"indexed", "index_failed"} =>
                  Cardinality(IndexCalls) = 1)
    /\ [](indexOutcome # "none" =>
            createOutcome \in {"created", "already_exists"})
    /\ [](\A i \in IndexCalls : \A j \in CreateCalls : j < i)
    /\ [](\A s \in SearchCalls : \A i \in CreateCalls \cup IndexCalls : i < s)
    /\ [][createOutcome # "none" =>
            (createOutcome' = createOutcome /\ CreateCalls' = CreateCalls)]_vars
    /\ [][indexOutcome # "none" =>
            (indexOutcome' = indexOutcome /\ IndexCalls' = IndexCalls)]_vars

\* The loop has searched once, after one create_collection and one
\* index_faces call, in that order.
C15_Witness ==
    /\ pc = "poll"
    /\ Len(calls) = 3
    /\ calls[1].op = "create_collection"
    /\ calls[2].op = "index_faces"
    /\ calls[3].op = "search_faces_by_image"


-----------------------------------------------------------------------------
(* C16 *)

\* C16: each acquired frame triggers at most one search call, exactly one if
\* it encoded and none otherwise; a failed search is not retried for its
\* frame; the calls are made one at a time, and the next frame is acquired
\* only after the search of the current one has returned or failed.
C16_OneSearchPerEncodedFrame ==
    /\ [](Cardinality(SearchCalls) = Cardinality(EncodedFrames))
    /\ [](Cardinality(SearchCalls) <= frameNo)
    /\ [][SearchCalls' # SearchCalls =>
            /\ pc = "search"
            /\ Len(calls') = Len(calls) + 1
            /\ Len(inputs') = Len(inputs) + 1
            /\ inputs'[Len(inputs')].encoded
            /\ Len(inputs') = frameNo
            /\ pc' = "show"]_vars
    /\ [][frameNo' # frameNo =>
            /\ pc = "read"
            /\ frameNo' = frameNo + 1
            /\ Len(inputs) = frameNo
            /\ Cardinality(SearchCalls) = Cardinality(EncodedFrames)]_vars

\* The search of the first frame failed and was not repeated; the second
\* frame has been acquired.
C16_Witness ==
    /\ Len(inputs) = 1
    /\ inputs[1].encoded /\ ~inputs[1].resp.ok
    /\ frameNo = 2
    /\ Cardinality(SearchCalls) = 1


-----------------------------------------------------------------------------
(* C17 *)

\* C17: when the cancellation signal is asserted at the poll, the loop leaves
\* Running: no further frame is acquired, no further search is issued and
\* nothing further is rendered; the camera handle and the rendering surface
\* are released; Stopped is terminal.
C17_QuitStopsTheLoop ==
    /\ [](stopCause = "quit" =>
            /\ pc \in {"finally", "finished"}
            /\ ~pending
            /\ pc = "finished" =>
                  (cap = "released" /\ releases = 1 /\ windowsDestroyed = 1))
    /\ [][(pc = "poll" /\ stopCause' = "quit") =>
            (pc' = "finally" /\ UNCHANGED <<frameNo, frame, calls, inputs, rendered>>)]_vars
    /\ [][stopCause = "quit" =>
            /\ UNCHANGED <<frameNo, frame, calls, inputs, rendered, polls>>
            /\ pc' = "finished"]_vars
    /\ [][pc # "finished"]_vars

\* 'q' was seen at the poll of the second iteration; the process function
\* has returned with the camera and the windows released.
C17_Witness ==
    /\ stopCause = "quit"
    /\ pc = "finished"
    /\ polls = 2
    /\ Len(rendered) = 2
    /\ cap = "released"
    /\ windowsDestroyed = 1


-----------------------------------------------------------------------------
(* C18 *)

\* C18: with the cancellation signal asserted for good and every capture,
\* search and render call returning, the loop eventually reaches Stopped with
\* the camera released, whatever the codec does.
C18_CancellationEventuallyStops ==
    Running ~> (pc = "finished" /\ cap = "released")


-----------------------------------------------------------------------------
(* C19 *)

IsSearch(c) == c.op = "search_faces_by_image"

\* The search requests, in the order they were made.
SearchRequests == SelectSeq(calls, IsSearch)

\* The request made for encoded frame k: searches are made one per encoded
\* frame, in frame order.
RequestOf(k) == SearchRequests[Cardinality({j \in EncodedFrames : j <= k})]

\* Every candidate the service returned has a similarity of at least the
\* threshold its request carried.
ServiceHonoursThreshold ==
    \A k \in EncodedFrames :
        (HasCandidate(inputs[k].resp) /\ inputs[k].resp.FaceMatches[1].hasSim) =>
            inputs[k].resp.FaceMatches[1].Similarity >= RequestOf(k).FaceMatchThreshold

\* C19: the threshold of the local comparison is the value passed to the
\* service as FaceMatchThreshold, so if the service returns only candidates
\* at or above the threshold it was given, no iteration decides LowMatch:
\* every decision is Match, NoMatch or SearchError.
C19_NoLowMatchFromHonestService ==
    /\ \A i \in SearchCalls : calls[i].FaceMatchThreshold = threshold
    /\ ServiceHonoursThreshold =>
          \A f \in AnnotatedFrames :
              KindsOn(f) \subseteq {"Match", "NoMatch", "SearchError"}

\* Three frames displayed by a service that kept to the threshold, one of
\* them with a similarity equal to it.
C19_Witness ==
    /\ ServiceHonoursThreshold
    /\ Len(rendered) = 3
    /\ \E i \in DOMAIN rendered :
          /\ HasWellFormedCandidate(ResponseOf(rendered[i]))
          /\ ResponseOf(rendered[i]).FaceMatches[1].Similarity = threshold
          /\ KindsOn(rendered[i]) = {"Match"}
    /\ \E i \in DOMAIN rendered : KindsOn(rendered[i]) = {"NoMatch"}


-----------------------------------------------------------------------------
(* C20 *)

\* The response returned successfully with a candidate lacking its
\* similarity or its external identity.
HasMalformedCandidate(resp) ==
    HasCandidate(resp) /\ ~HasWellFormedCandidate(resp)

\* C20: a search call that returns a malformed candidate is handled like a
\* failed search: the frame is rendered with the Search Error overlay only,
\* the loop stays Running, and the camera is not released.
C20_MalformedCandidateIsSearchError ==
    /\ [](\A f \in AnnotatedFrames :
            HasMalformedCandidate(ResponseOf(f)) =>
                f.overlays = <<PutText(<<"Search Error">>, 60)>>)
    /\ []((pc \in {"show", "poll"} /\ HasMalformedCandidate(inputs[frameNo].resp)) =>
            \E f \in AnnotatedFrames : f.id = frameNo)
    /\ [][(pc = "search" /\ HasMalformedCandidate(inputs'[Len(inputs')].resp)) =>
            /\ pc' = "show"
            /\ stopCause' = "none"
            /\ ~pending'
            /\ cap' = "open"
            /\ releases' = 0]_vars

\* Candidates without similarity and without identity were both displayed
\* as Search Error, and the loop is still running with the camera open.
C20_Witness ==
    /\ pc = "poll"
    /\ cap = "open"
    /\ Len(rendered) = 2
    /\ HasCandidate(ResponseOf(rendered[1]))
    /\ ~ResponseOf(rendered[1]).FaceMatches[1].hasSim
    /\ HasCandidate(ResponseOf(rendered[2]))
    /\ ~ResponseOf(rendered[2]).FaceMatches[1].hasId
    /\ KindsOn(rendered[1]) = {"SearchError"}
    /\ KindsOn(rendered[2]) = {"SearchError"}

====
